---- MODULE Spec2Model ----
(***************************************************************************)
(* Model of the ZIM PDF parser service (src/main.py).                      *)
(*                                                                         *)
(* Text.  A Python string is a sequence of one-character strings.  The     *)
(* decoded XFA text is a sequence of tokens, each one piece of markup:     *)
(*   [kind |-> "field", tag |-> t, val |-> v]   the text <t>v</t>          *)
(*   [kind |-> "open",  tag |-> t, val |-> <<>>] the text <t>              *)
(*   [kind |-> "close", tag |-> t, val |-> <<>>] the text </t>             *)
(* The regular expressions of the source are evaluated over the tokens.    *)
(* Values never hold the character "<", so [^<]* spans one value.          *)
(*                                                                         *)
(* Numbers.  A Python float is the integer number of 1/Scale units of the  *)
(* decimal it denotes; the values enumerated have at most four decimals.   *)
(***************************************************************************)
EXTENDS Integers, Sequences, FiniteSets, TLC

VARIABLES upload, text, pc, fmt, result, calls, status

vars == <<upload, text, pc, fmt, result, calls, status>>

----------------------------------------------------------------------------
(* Characters and strings                                                  *)

Digits == <<"0", "1", "2", "3", "4", "5", "6", "7", "8", "9">>

IsDigit(c) == \E i \in 1..Len(Digits) : Digits[i] = c

DigitVal(c) == (CHOOSE i \in 1..Len(Digits) : Digits[i] = c) - 1

\* str.isspace for the one white-space character of the alphabet
IsSpace(c) == c = " "

Scale == 10 * 10 * 10 * 10

\* The one element of a singleton set.  Only({e(v) : v \in {x}}) is e(x) with x
\* computed once, however often e uses it: a local variable of the source.
Only(S) == CHOOSE x \in S : TRUE

Contains(s, c) == \E i \in 1..Len(s) : s[i] = c

\* str.rfind: the last index of c in s (1-based), 0 when absent
RFind(s, c) == IF Contains(s, c) THEN CHOOSE i \in 1..Len(s) : s[i] = c /\ \A j \in (i + 1)..Len(s) : s[j] # c ELSE 0

\* str.find from the left (1-based), 0 when absent
Find(s, c) == IF Contains(s, c) THEN CHOOSE i \in 1..Len(s) : s[i] = c /\ \A j \in 1..(i - 1) : s[j] # c ELSE 0

RECURSIVE LStrip(_)
LStrip(s) == IF s # <<>> /\ IsSpace(Head(s)) THEN LStrip(Tail(s)) ELSE s

RECURSIVE RStripChar(_, _)
RStripChar(s, c) == IF s # <<>> /\ s[Len(s)] = c THEN RStripChar(SubSeq(s, 1, Len(s) - 1), c) ELSE s

\* str.strip()
Strip(s) == RStripChar(LStrip(s), " ")

\* str.rstrip('.')
RStripDot(s) == RStripChar(s, ".")

\* str.replace(c, r) for a one-character c and a replacement string r
RECURSIVE Replace(_, _, _)
Replace(s, c, r) == IF s = <<>> THEN <<>> ELSE (IF Head(s) = c THEN r ELSE <<Head(s)>>) \o Replace(Tail(s), c, r)

\* str.split(c): the pieces between the occurrences of c, empty ones kept
RECURSIVE Split(_, _)
Split(s, c) == IF ~Contains(s, c) THEN <<s>> ELSE <<SubSeq(s, 1, Find(s, c) - 1)>> \o Split(SubSeq(s, Find(s, c) + 1, Len(s)), c)

AllDigits(s) == s # <<>> /\ \A i \in 1..Len(s) : IsDigit(s[i])

RECURSIVE NatVal(_)
NatVal(s) == IF s = <<>> THEN 0 ELSE 10 * NatVal(SubSeq(s, 1, Len(s) - 1)) + DigitVal(s[Len(s)])

\* the digits after the decimal point, as a number of 1/Scale units
RECURSIVE FracVal(_, _)
FracVal(s, weight) == IF s = <<>> \/ weight = 0 THEN 0 ELSE DigitVal(Head(s)) * weight + FracVal(Tail(s), weight \div 10)

Unsigned(s) == IF s # <<>> /\ Head(s) = "-" THEN Tail(s) ELSE s

Sign(s) == IF s # <<>> /\ Head(s) = "-" THEN -1 ELSE 1

\* int(s) succeeds: optional white space, optional sign, digits
IntOK(s) == AllDigits(Unsigned(Strip(s)))

IntVal(s) == Sign(Strip(s)) * NatVal(Unsigned(Strip(s)))

\* float(s) succeeds: optional white space, optional sign, digits with at most
\* one decimal point and at least one digit (the alphabet has no exponent,
\* no "inf", no "nan", no underscore)
FloatOK(s) ==
    LET b == Unsigned(Strip(s))
        p == Split(b, ".")
    IN  \/ AllDigits(b)
        \/ /\ Len(p) = 2
           /\ p[1] = <<>> \/ AllDigits(p[1])
           /\ p[2] = <<>> \/ AllDigits(p[2])
           /\ p[1] # <<>> \/ p[2] # <<>>

FloatVal(s) ==
    LET b == Unsigned(Strip(s))
        p == Split(b, ".")
    IN  Sign(Strip(s)) * (NatVal(p[1]) * Scale + (IF Len(p) = 2 THEN FracVal(p[2], Scale \div 10) ELSE 0))

\* int(x) of a float x: truncation towards zero
IntOfFloat(x) == IF x >= 0 THEN x \div Scale ELSE -((-x) \div Scale)

\* int(float(s)) succeeds / its value
IntFloatOK(s) == FloatOK(s)

IntFloatVal(s) == IntOfFloat(FloatVal(s))

\* round(x / k, 2) for x in 1/Scale units: the nearest multiple of 1/100, a tie
\* going to the even one, which is what the float arithmetic gives on the values
\* enumerated below
Round2Div(x, k) ==
    LET unit == Scale \div 100
        den == k * unit
        a == IF x >= 0 THEN x ELSE -x
        q == a \div den
        r == a % den
        n == IF 2 * r > den \/ (2 * r = den /\ q % 2 = 1) THEN q + 1 ELSE q
    IN  (IF x >= 0 THEN 1 ELSE -1) * n * unit

----------------------------------------------------------------------------
(* Helper functions                                                        *)

\* re.IGNORECASE on a tag name: the spellings of one name fold to one
CaseFold(t) == IF t = "THEMA" THEN "thema" ELSE t

IsField(tok, t) == tok.kind = "field" /\ tok.tag = t

IsFieldI(tok, t) == tok.kind = "field" /\ CaseFold(tok.tag) = CaseFold(t)

\* extract_value(r'<t>([^<]+)', text): the first non-empty value of tag t,
\* stripped; '' when there is none
extract_value(t, toks) ==
    LET hits == {i \in 1..Len(toks) : IsFieldI(toks[i], t) /\ toks[i].val # <<>>}
    IN  IF hits = {} THEN <<>> ELSE Strip(toks[CHOOSE i \in hits : \A j \in hits : i <= j].val)

\* parse_float_value with ',' taken for the decimal separator whenever both occur
parse_float_value_mutant(value) ==
    IF value = <<>> THEN 0
    ELSE LET c0 == Strip(value)
             c1 == IF Contains(c0, ",") /\ Contains(c0, ".")
                   THEN Replace(Replace(c0, ".", <<>>), ",", <<".">>)
                   ELSE IF Contains(c0, ",") THEN Replace(c0, ",", <<".">>) ELSE c0
         IN  IF FloatOK(c1) THEN FloatVal(c1) ELSE 0

parse_float_value(value) ==
    IF value = <<>> THEN 0
    ELSE LET c0 == Strip(value)
             c1 == IF Contains(c0, ",") /\ Contains(c0, ".")
                   THEN IF RFind(c0, ",") > RFind(c0, ".")
                        THEN Replace(Replace(c0, ".", <<>>), ",", <<".">>)
                        ELSE Replace(c0, ",", <<>>)
                   ELSE IF Contains(c0, ",") THEN Replace(c0, ",", <<".">>) ELSE c0
         IN  IF FloatOK(c1) THEN FloatVal(c1) ELSE 0

extract_float(t, toks) == parse_float_value(extract_value(t, toks))

\* extract_all_values: every value of tag t in document order, stripped, the
\* blank ones dropped
RECURSIVE extract_all_values(_, _)
extract_all_values(t, toks) ==
    IF toks = <<>> THEN <<>>
    ELSE (IF IsFieldI(Head(toks), t) /\ Strip(Head(toks).val) # <<>> THEN <<Strip(Head(toks).val)>> ELSE <<>>)
         \o extract_all_values(t, Tail(toks))

parse_ap_nummer(lfd0) ==
    IF lfd0 = <<>> THEN <<0, 0>>
    ELSE LET lfd == RStripDot(Strip(lfd0))
             parts == Split(lfd, ".")
         IN  IF Contains(lfd, ".")
             THEN IF IntOK(parts[1]) /\ (parts[2] = <<>> \/ IntOK(parts[2]))
                  THEN <<IntVal(parts[1]), IF parts[2] # <<>> THEN IntVal(parts[2]) ELSE 0>>
                  ELSE <<0, 0>>
             ELSE IF IntFloatOK(lfd) THEN <<IntFloatVal(lfd), 0>> ELSE <<0, 0>>

----------------------------------------------------------------------------
(* Tokens of the decoded text                                              *)

Field(t, v) == [kind |-> "field", tag |-> t, val |-> v]

Open(t) == [kind |-> "open", tag |-> t, val |-> <<>>]

Close(t) == [kind |-> "close", tag |-> t, val |-> <<>>]

\* the least index >= from of a field <t>..</t> (tag matched as written), 0 when none
FirstField(toks, t, from) ==
    LET hits == {i \in from..Len(toks) : IsField(toks[i], t)}
    IN  IF hits = {} THEN 0 ELSE CHOOSE i \in hits : \A j \in hits : i <= j

\* re.findall(r'<a>([^<]*)</a>.*?<b>([^<]*)</b>.*?<c>([^<]*)</c>', text, re.DOTALL):
\* the first <a>, the first <b> after it, the first <c> after that; the next
\* match is searched after the <c>
RECURSIVE FindTriples(_, _, _, _, _)
FindTriples(toks, a, b, c, from) ==
    LET i == FirstField(toks, a, from)
        j == IF i = 0 THEN 0 ELSE FirstField(toks, b, i + 1)
        k == IF j = 0 THEN 0 ELSE FirstField(toks, c, j + 1)
    IN  IF k = 0 THEN <<>>
        ELSE <<[g1 |-> toks[i].val, g2 |-> toks[j].val, g3 |-> toks[k].val]>> \o FindTriples(toks, a, b, c, k + 1)

----------------------------------------------------------------------------
(* extract_ma_zuordnungen_ds                                               *)

AP == <<"A", "P">>

EmptyDict == [c \in {} |-> <<>>]

\* zuordnungen[ap_code].append(entry), the key created when missing
DictAppend(zu, code, entry) ==
    [c \in DOMAIN zu \cup {code} |-> IF c = code THEN (IF c \in DOMAIN zu THEN zu[c] ELSE <<>>) \o <<entry>> ELSE zu[c]]

RECURSIVE DropBlank(_)
DropBlank(pieces) ==
    IF pieces = <<>> THEN <<>>
    ELSE (IF Strip(Head(pieces)) # <<>> THEN <<Strip(Head(pieces))>> ELSE <<>>) \o DropBlank(Tail(pieces))

RECURSIVE MapRStripDot(_)
MapRStripDot(l) == IF l = <<>> THEN <<>> ELSE <<RStripDot(Head(l))>> \o MapRStripDot(Tail(l))

\* ap_list of the non-technical family: [ap.strip() for ap in aps.split(';') if ap.strip()]
ApListNonTech(aps) == DropBlank(Split(aps, ";"))

\* ap_list of the technical family: [ap.strip().rstrip('.') for ap in aps.split(';') if ap.strip()]
ApListTech(aps) == MapRStripDot(DropBlank(Split(aps, ";")))

RECURSIVE AppendEach(_, _, _)
AppendEach(zu, ap_list, entry) ==
    IF ap_list = <<>> THEN zu
    ELSE Only({AppendEach(z, Tail(ap_list), entry) : z \in {DictAppend(zu, AP \o Head(ap_list), entry)}})

\* pm_per_ap, rounded: round(pm_total / len(ap_list), 2)
PmPerApMutant(pm_total, n) == Round2Div(pm_total, 1)

PmPerAp(pm_total, n) == Round2Div(pm_total, n)

\* one iteration of a grouped loop: the dictionary after it, or the exception
GroupedBlock(zu, b, technical) ==
    IF b.g1 # <<>> /\ ~IntFloatOK(b.g1) THEN [exc |-> "ValueError", zu |-> zu]
    ELSE Only({IF ma_nr = 0 \/ ap_list = <<>> THEN [exc |-> "none", zu |-> zu]
               ELSE [exc |-> "none", zu |-> AppendEach(zu, ap_list, [ma_nr |-> ma_nr, pm |-> PmPerAp(pm_total, Len(ap_list))])] :
               ma_nr \in {IF b.g1 # <<>> THEN IntFloatVal(b.g1) ELSE 0},
               ap_list \in {IF technical THEN ApListTech(b.g3) ELSE ApListNonTech(b.g3)},
               pm_total \in {parse_float_value(b.g2)}})

RECURSIVE GroupedLoop(_, _, _)
GroupedLoop(zu, blocks, technical) ==
    IF blocks = <<>> THEN [exc |-> "none", zu |-> zu]
    ELSE Only({IF r.exc # "none" THEN r ELSE GroupedLoop(r.zu, Tail(blocks), technical) :
               r \in {GroupedBlock(zu, Head(blocks), technical)}})

\* one iteration of the loop over the direct rows
DirectRow(zu, row) ==
    IF row.g2 # <<>> /\ ~IntFloatOK(row.g2) THEN [exc |-> "ValueError", zu |-> zu]
    ELSE Only({IF ma = 0 THEN [exc |-> "none", zu |-> zu]
               ELSE [exc |-> "none", zu |-> DictAppend(zu, AP \o Strip(row.g1), [ma_nr |-> ma, pm |-> parse_float_value(row.g3)])] :
               ma \in {IF row.g2 # <<>> THEN IntFloatVal(row.g2) ELSE 0}})

RECURSIVE DirectLoop(_, _)
DirectLoop(zu, rows) ==
    IF rows = <<>> THEN [exc |-> "none", zu |-> zu]
    ELSE Only({IF r.exc # "none" THEN r ELSE DirectLoop(r.zu, Tail(rows)) : r \in {DirectRow(zu, Head(rows))}})

MaBlocks(toks) == FindTriples(toks, "MA_10B", "pm_10B", "AP_10B", 1)

MaBlocksTech(toks) == FindTriples(toks, "MA_10B_techn", "pm_10B_techn", "AP_10B_techn", 1)

ZeileMatches(toks) == FindTriples(toks, "Arbeitspaket_Nr", "MA_Nr", "pm", 1)

\* the non-technical family, then the technical one into the same dictionary
GroupedEncoding(toks) ==
    Only({IF nt.exc # "none" THEN nt ELSE Only({GroupedLoop(nt.zu, tb, TRUE) : tb \in {MaBlocksTech(toks)}}) :
          nt \in {Only({GroupedLoop(EmptyDict, mb, FALSE) : mb \in {MaBlocks(toks)}})}})

\* extract_ma_zuordnungen_ds with the direct rows merged into whatever the grouped
\* encoding produced
extract_ma_zuordnungen_ds_mutant(toks) ==
    Only({IF te.exc # "none" THEN te
          ELSE IF zeile_matches # <<>> THEN DirectLoop(te.zu, zeile_matches)
          ELSE te :
          te \in {GroupedEncoding(toks)}, zeile_matches \in {ZeileMatches(toks)}})

extract_ma_zuordnungen_ds(toks) ==
    Only({IF te.exc # "none" THEN te
          ELSE IF zeile_matches # <<>> /\ DOMAIN te.zu = {} THEN DirectLoop(te.zu, zeile_matches)
          ELSE te :
          te \in {GroupedEncoding(toks)}, zeile_matches \in {ZeileMatches(toks)}})

----------------------------------------------------------------------------
(* extract_mitarbeiter_ds                                                  *)

FirstOfKind(toks, kind, t, from) ==
    LET hits == {i \in from..Len(toks) : toks[i].kind = kind /\ toks[i].tag = t}
    IN  IF hits = {} THEN 0 ELSE CHOOSE i \in hits : \A j \in hits : i <= j

\* re.findall(r'<Page11>(.*?)</Page11>', text, re.DOTALL): from the first
\* <Page11> to the first </Page11> after it, then on from there
RECURSIVE Page11Blocks(_, _)
Page11Blocks(toks, from) ==
    LET i == FirstOfKind(toks, "open", "Page11", from)
        j == IF i = 0 THEN 0 ELSE FirstOfKind(toks, "close", "Page11", i + 1)
    IN  IF j = 0 THEN <<>> ELSE <<SubSeq(toks, i + 1, j - 1)>> \o Page11Blocks(toks, j + 1)

\* '<lfd>' in block
HasLfdTag(block) == \E i \in 1..Len(block) : block[i].kind \in {"open", "field"} /\ block[i].tag = "lfd"

\* one iteration of the loop over the blocks (idx counts from 0): the list
\* after it, or the exception of int(float(lfd))
MitarbeiterBlock(mitarbeiter, block, idx) ==
    LET lfd == extract_value("lfd", block)
        name == extract_value("name", block)
        vname == extract_value("vname", block)
    IN  IF ~HasLfdTag(block) THEN [exc |-> "none", list |-> mitarbeiter]
        ELSE IF name = <<>> \/ vname = <<>> THEN [exc |-> "none", list |-> mitarbeiter]
        ELSE IF lfd # <<>> /\ ~IntFloatOK(lfd) THEN [exc |-> "ValueError", list |-> mitarbeiter]
        ELSE [exc |-> "none",
              list |-> Append(mitarbeiter, [ma_nr |-> IF lfd # <<>> THEN IntFloatVal(lfd) ELSE idx + 1,
                                            nachname |-> name, vorname |-> vname])]

RECURSIVE MitarbeiterLoop(_, _, _)
MitarbeiterLoop(mitarbeiter, blocks, idx) ==
    IF idx >= Len(blocks) THEN [exc |-> "none", list |-> mitarbeiter]
    ELSE Only({IF r.exc # "none" THEN r ELSE MitarbeiterLoop(r.list, blocks, idx + 1) :
               r \in {MitarbeiterBlock(mitarbeiter, blocks[idx + 1], idx)}})

extract_mitarbeiter_ds(toks) == Only({MitarbeiterLoop(<<>>, page11_blocks, 0) : page11_blocks \in {Page11Blocks(toks, 1)}})

----------------------------------------------------------------------------
(* parse_durchfuehrbarkeitsstudie                                          *)

\* str(n) for n >= 0
RECURSIVE IntToStr(_)
IntToStr(n) == IF n < 10 THEN <<Digits[n + 1]>> ELSE IntToStr(n \div 10) \o <<Digits[(n % 10) + 1]>>

Max(a, b) == IF a >= b THEN a ELSE b

\* l[i] (i counts from 0) or the default
At(l, i, default) == IF i < Len(l) THEN l[i + 1] ELSE default

\* ma_zuordnungen.get(ap_code, [])
DictGet(zu, code) == IF code \in DOMAIN zu THEN zu[code] ELSE <<>>

\* ap_name and len(ap_name) > 2
NameAccepted(ap_name) == ap_name # <<>> /\ Len(ap_name) > 2

\* one iteration of the non-technical loop; st = [aps, gesamt_pm]
NonTechStepMutant(st, i, ap_nrs, ap_names, ap_pms, zu) ==
    LET ap_nr_str == At(ap_nrs, i, IntToStr(i + 1))
        ap_name == At(ap_names, i, <<>>)
        pm_str == At(ap_pms, i, <<"0">>)
        nr == parse_ap_nummer(ap_nr_str)
        haupt == IF nr[1] = 0 THEN i + 1 ELSE nr[1]
        pm == parse_float_value(pm_str)
        ap_code == AP \o Strip(ap_nr_str)
    IN  IF NameAccepted(ap_name)
        THEN [aps |-> Append(st.aps, [ap_nummer |-> haupt, ap_sub_nummer |-> nr[2], ap_code |-> ap_code,
                                      name |-> ap_name, gesamt_pm |-> pm, is_technical |-> FALSE,
                                      mitarbeiter_zuordnungen |-> DictGet(zu, ap_code)]),
              gesamt_pm |-> st.gesamt_pm + pm]
        ELSE [aps |-> st.aps, gesamt_pm |-> st.gesamt_pm + pm]

NonTechStep(st, i, ap_nrs, ap_names, ap_pms, zu) ==
    LET ap_nr_str == At(ap_nrs, i, IntToStr(i + 1))
        ap_name == At(ap_names, i, <<>>)
        pm_str == At(ap_pms, i, <<"0">>)
        nr == parse_ap_nummer(ap_nr_str)
        haupt == IF nr[1] = 0 THEN i + 1 ELSE nr[1]
        pm == parse_float_value(pm_str)
        ap_code == AP \o Strip(ap_nr_str)
    IN  IF NameAccepted(ap_name)
        THEN [aps |-> Append(st.aps, [ap_nummer |-> haupt, ap_sub_nummer |-> nr[2], ap_code |-> ap_code,
                                      name |-> ap_name, gesamt_pm |-> pm, is_technical |-> FALSE,
                                      mitarbeiter_zuordnungen |-> DictGet(zu, ap_code)]),
              gesamt_pm |-> st.gesamt_pm + pm]
        ELSE st

RECURSIVE NonTechLoop(_, _, _, _, _, _)
NonTechLoop(st, i, ap_nrs, ap_names, ap_pms, zu) ==
    IF i >= Max(Len(ap_nrs), Len(ap_names)) THEN st
    ELSE Only({NonTechLoop(s2, i + 1, ap_nrs, ap_names, ap_pms, zu) : s2 \in {NonTechStep(st, i, ap_nrs, ap_names, ap_pms, zu)}})

\* any(ap['ap_code'] == ap_code for ap in arbeitspakete)
CodeExists(aps, ap_code) == \E k \in 1..Len(aps) : aps[k].ap_code = ap_code

\* one iteration of the technical loop
TechStep(st, i, ap_nrs_tech, ap_names_tech, ap_pms_tech, zu) ==
    LET ap_nr_str == At(ap_nrs_tech, i, <<>>)
        ap_name == At(ap_names_tech, i, <<>>)
        pm_str == At(ap_pms_tech, i, <<"0">>)
        clean_nr == RStripDot(ap_nr_str)
        nr == parse_ap_nummer(clean_nr)
        ap_code == AP \o clean_nr
        pm == parse_float_value(pm_str)
    IN  IF NameAccepted(ap_name) /\ ap_nr_str # <<>> /\ ~CodeExists(st.aps, ap_code) /\ nr[1] > 0
        THEN [aps |-> Append(st.aps, [ap_nummer |-> nr[1], ap_sub_nummer |-> nr[2], ap_code |-> ap_code,
                                      name |-> ap_name, gesamt_pm |-> pm, is_technical |-> TRUE,
                                      mitarbeiter_zuordnungen |-> DictGet(zu, ap_code)]),
              gesamt_pm |-> st.gesamt_pm + pm]
        ELSE st

RECURSIVE TechLoop(_, _, _, _, _, _)
TechLoop(st, i, ap_nrs_tech, ap_names_tech, ap_pms_tech, zu) ==
    IF i >= Max(Len(ap_nrs_tech), Len(ap_names_tech)) THEN st
    ELSE Only({TechLoop(s2, i + 1, ap_nrs_tech, ap_names_tech, ap_pms_tech, zu) :
               s2 \in {TechStep(st, i, ap_nrs_tech, ap_names_tech, ap_pms_tech, zu)}})

\* the sort key (ap['ap_nummer'], ap['ap_sub_nummer'] or 0) of x is less than that of y
KeyLess(x, y) ==
    \/ x.ap_nummer < y.ap_nummer
    \/ x.ap_nummer = y.ap_nummer /\ x.ap_sub_nummer < y.ap_sub_nummer

RECURSIVE InsertSorted(_, _)
InsertSorted(sorted, x) ==
    IF sorted = <<>> THEN <<x>>
    ELSE IF KeyLess(x, Head(sorted)) THEN <<x>> \o sorted
    ELSE <<Head(sorted)>> \o InsertSorted(Tail(sorted), x)

\* list.sort(key=...): stable, ascending
RECURSIVE SortByNummer(_)
SortByNummer(l) ==
    IF l = <<>> THEN <<>>
    ELSE Only({InsertSorted(sorted, l[Len(l)]) : sorted \in {SortByNummer(SubSeq(l, 1, Len(l) - 1))}})

DS == "durchfuehrbarkeitsstudie"

STANDARD == "standard_zim"

UNKNOWN == "unbekannt"

Raised(e) == [exc |-> e]

\* the non-technical pass over the zipped lists of the text
NonTechPass(toks, zu) ==
    Only({NonTechLoop([aps |-> <<>>, gesamt_pm |-> 0], 0, ap_nrs, ap_names, ap_pms, zu) :
          ap_nrs \in {extract_all_values("Arbeitspaket_Nr", toks)},
          ap_names \in {extract_all_values("Arbeitspaket", toks)},
          ap_pms \in {extract_all_values("pm", toks)}})

\* the technical pass, appending to the list of the non-technical pass
TechPass(st, toks, zu) ==
    Only({TechLoop(st, 0, ap_nrs_tech, ap_names_tech, ap_pms_tech, zu) :
          ap_nrs_tech \in {extract_all_values("Arbeitspaket_Nr_techn", toks)},
          ap_names_tech \in {extract_all_values("Arbeitspaket_techn", toks)},
          ap_pms_tech \in {extract_all_values("pm_techn", toks)}})

\* the work packages and projekt['gesamt_pm'], before the sort
Arbeitspakete(toks, zu) == Only({TechPass(nt, toks, zu) : nt \in {NonTechPass(toks, zu)}})

parse_durchfuehrbarkeitsstudie(toks) ==
    Only({IF mitarbeiter.exc # "none" THEN Raised(mitarbeiter.exc)
          ELSE Only({IF ma_zuordnungen.exc # "none" THEN Raised(ma_zuordnungen.exc)
                     ELSE Only({[exc |-> "none",
                                 projekt |-> [name |-> extract_value("thema", toks), gesamt_pm |-> te.gesamt_pm],
                                 mitarbeiter |-> mitarbeiter.list,
                                 arbeitspakete |-> SortByNummer(te.aps),
                                 format |-> DS] : te \in {Arbeitspakete(toks, ma_zuordnungen.zu)}}) :
                     ma_zuordnungen \in {extract_ma_zuordnungen_ds(toks)}}) :
          mitarbeiter \in {extract_mitarbeiter_ds(toks)}})

----------------------------------------------------------------------------
(* detect_format, parse_standard_zim                                       *)

\* the tag names of the model that hold the marker 'cg_VMS_' / 'cg_case_'
CgVmsTags == {"cg_VMS_VB_Projekt"}

CgCaseTags == {"cg_case_KENN_2"}

\* marker in xfa_text, for the four markers detect_format looks for
InText(marker, toks) ==
    \E i \in 1..Len(toks) :
        CASE marker = "Antrag_DS" -> toks[i].tag = "Antrag_DS"
          [] marker = "<thema>" -> toks[i].kind \in {"open", "field"} /\ toks[i].tag = "thema"
          [] marker = "cg_VMS_" -> toks[i].tag \in CgVmsTags
          [] marker = "cg_case_" -> toks[i].tag \in CgCaseTags

detect_format_mutant(xfa_text) ==
    IF InText("cg_VMS_", xfa_text) \/ InText("cg_case_", xfa_text) THEN "standard_zim"
    ELSE IF InText("Antrag_DS", xfa_text) \/ InText("<thema>", xfa_text) THEN "durchfuehrbarkeitsstudie"
    ELSE "unbekannt"

detect_format(xfa_text) ==
    IF InText("Antrag_DS", xfa_text) \/ InText("<thema>", xfa_text) THEN "durchfuehrbarkeitsstudie"
    ELSE IF InText("cg_VMS_", xfa_text) \/ InText("cg_case_", xfa_text) THEN "standard_zim"
    ELSE "unbekannt"

parse_standard_zim(toks) ==
    [exc |-> "none",
     projekt |-> [name |-> extract_value("cg_VMS_VB_Projekt", toks), gesamt_pm |-> extract_float("sum_ges_pm", toks)],
     mitarbeiter |-> <<>>,
     arbeitspakete |-> <<>>,
     format |-> STANDARD]

----------------------------------------------------------------------------
(* parse_zim_pdf and the /parse endpoint                                   *)

\* not result['projekt']['name'] and not result['arbeitspakete']
FallbackNeededMutant(r) == r.projekt.name = <<>> \/ r.arbeitspakete = <<>>

FallbackNeeded(r) == r.projekt.name = <<>> /\ r.arbeitspakete = <<>>

RECURSIVE CountZuordnungen(_)
CountZuordnungen(aps) == IF aps = <<>> THEN 0 ELSE Len(Head(aps).mitarbeiter_zuordnungen) + CountZuordnungen(Tail(aps))

\* the record parse_zim_pdf returns for a parser result r
ZimRecord(r) ==
    [exc |-> "none",
     projekt |-> r.projekt,
     budget |-> [gesamt_pm |-> r.projekt.gesamt_pm],
     mitarbeiter |-> r.mitarbeiter,
     arbeitspakete |-> r.arbeitspakete,
     format_erkannt |-> r.format,
     statistik |-> [anzahl_mitarbeiter |-> Len(r.mitarbeiter),
                    anzahl_arbeitspakete |-> Len(r.arbeitspakete),
                    anzahl_ap_zuordnungen |-> CountZuordnungen(r.arbeitspakete),
                    gesamt_pm |-> r.projekt.gesamt_pm]]

\* /parse: the file name does not end in .pdf
ParsePdfRejectName ==
    /\ pc = "request"
    /\ ~upload.filename_pdf
    /\ status' = 400
    /\ pc' = "responded"
    /\ UNCHANGED <<upload, text, fmt, result, calls>>

\* /parse: the content is read and parse_zim_pdf is called
ParsePdfRead ==
    /\ pc = "request"
    /\ upload.filename_pdf
    /\ calls' = Append(calls, "parse_zim_pdf")
    /\ pc' = "zim_open"
    /\ UNCHANGED <<upload, text, fmt, result, status>>

\* parse_zim_pdf: the reader fails on the content
ZimUnreadable ==
    /\ pc = "zim_open"
    /\ upload.container = "unreadable"
    /\ result' = Raised("PdfReadError")
    /\ pc' = "raised"
    /\ UNCHANGED <<upload, text, fmt, calls, status>>

\* parse_zim_pdf: no AcroForm, no XFA, or no decoded text
ZimNoFormData ==
    /\ pc = "zim_open"
    /\ \/ upload.container \in {"no_acroform", "no_xfa"}
       \/ upload.container = "xfa" /\ upload.text = <<>>
    /\ result' = Raised("ValueError")
    /\ pc' = "raised"
    /\ UNCHANGED <<upload, text, fmt, calls, status>>

\* parse_zim_pdf: the XFA streams are decoded
ZimDecode ==
    /\ pc = "zim_open"
    /\ upload.container = "xfa"
    /\ upload.text # <<>>
    /\ text' = upload.text
    /\ pc' = "detect"
    /\ UNCHANGED <<upload, fmt, result, calls, status>>

ZimDetectFormat ==
    /\ pc = "detect"
    /\ fmt' = detect_format(text)
    /\ pc' = "dispatch"
    /\ UNCHANGED <<upload, text, result, calls, status>>

\* the feasibility-study parser runs: for its own format, and first for an unknown one
ZimParseDS ==
    /\ pc = "dispatch"
    /\ fmt \in {DS, UNKNOWN}
    /\ result' = parse_durchfuehrbarkeitsstudie(text)
    /\ calls' = Append(calls, "parse_durchfuehrbarkeitsstudie")
    /\ pc' = IF result'.exc # "none" THEN "raised" ELSE IF fmt = UNKNOWN THEN "fallback" ELSE "assemble"
    /\ UNCHANGED <<upload, text, fmt, status>>

ZimParseStandard ==
    /\ pc = "dispatch"
    /\ fmt = STANDARD
    /\ result' = parse_standard_zim(text)
    /\ calls' = Append(calls, "parse_standard_zim")
    /\ pc' = "assemble"
    /\ UNCHANGED <<upload, text, fmt, status>>

\* unknown format, the first result has no name and no packages: the standard parser runs
ZimFallback ==
    /\ pc = "fallback"
    /\ FallbackNeeded(result)
    /\ result' = parse_standard_zim(text)
    /\ calls' = Append(calls, "parse_standard_zim")
    /\ pc' = "assemble"
    /\ UNCHANGED <<upload, text, fmt, status>>

\* unknown format, the first result is kept
ZimKeepFirst ==
    /\ pc = "fallback"
    /\ ~FallbackNeeded(result)
    /\ pc' = "assemble"
    /\ UNCHANGED <<upload, text, fmt, result, calls, status>>

\* budget, statistik and the returned record
ZimReturn ==
    /\ pc = "assemble"
    /\ result' = ZimRecord(result)
    /\ pc' = "returned"
    /\ UNCHANGED <<upload, text, fmt, calls, status>>

\* /parse: JSONResponse with the record
ParsePdfOk ==
    /\ pc = "returned"
    /\ status' = 200
    /\ pc' = "responded"
    /\ UNCHANGED <<upload, text, fmt, result, calls>>

\* /parse: except ValueError
ParsePdfValueError ==
    /\ pc = "raised"
    /\ result.exc = "ValueError"
    /\ status' = 400
    /\ pc' = "responded"
    /\ UNCHANGED <<upload, text, fmt, result, calls>>

\* /parse: except Exception
ParsePdfException ==
    /\ pc = "raised"
    /\ result.exc # "ValueError"
    /\ status' = 500
    /\ pc' = "responded"
    /\ UNCHANGED <<upload, text, fmt, result, calls>>

----------------------------------------------------------------------------
(* Inputs of extract_ma_zuordnungen_ds: texts of grouped blocks of both     *)
(* tag families and of direct rows                                         *)

MaxBlocks == 2

SeqsUpTo(S, n) == UNION {[1..k -> S] : k \in 0..n}

RECURSIVE Flatten(_)
Flatten(ss) == IF ss = <<>> THEN <<>> ELSE Head(ss) \o Flatten(Tail(ss))

OrdinalOk == {<<"1">>, <<"2">>}

OrdinalOdd == {<<"0">>, <<>>, <<" ">>, <<"a", "b", "c">>, <<"1", ".", "0", "0">>, <<"-", "1">>}

PmOk == {<<"1", ".", "5">>, <<"0", ",", "5">>}

PmOdd == {<<"0">>, <<"-", "1">>, <<"a", "b", "c">>}

ApsOk == {<<"1", ";", "3", ";">>, <<"2">>}

ApsOdd == {<<>>, <<"1", ".", ";", " ", "3">>, <<"1", ";", "1">>, <<" ", ";">>}

\* (ordinal, person-months, package list) with at most one unusual member
GroupedValues ==
    (OrdinalOk \X PmOk \X ApsOk)
    \cup (OrdinalOdd \X {<<"1", ".", "5">>} \X {<<"1", ";", "3", ";">>})
    \cup ({<<"1">>} \X PmOdd \X {<<"1", ";", "3", ";">>})
    \cup ({<<"1">>} \X {<<"1", ".", "5">>} \X ApsOdd)

GroupedNonTech == {<<Field("MA_10B", v[1]), Field("pm_10B", v[2]), Field("AP_10B", v[3])>> : v \in GroupedValues}

GroupedTech == {<<Field("MA_10B_techn", v[1]), Field("pm_10B_techn", v[2]), Field("AP_10B_techn", v[3])>> : v \in GroupedValues}

RowValues ==
    ({<<"1">>, <<" ", "2">>} \X {<<"1", ".", "0", "0">>} \X {<<"0", ".", "5", "0", "0">>})
    \cup ({<<"1">>} \X {<<"0">>, <<"a", "b", "c">>, <<>>} \X {<<"0", ".", "5", "0", "0">>})
    \cup ({<<"1">>} \X {<<"2">>} \X {<<"0">>, <<"a", "b", "c">>})

DirectRows == {<<Field("Arbeitspaket_Nr", v[1]), Field("MA_Nr", v[2]), Field("pm", v[3])>> : v \in RowValues}

ZuTexts == {Flatten(bs) : bs \in SeqsUpTo(GroupedNonTech \cup GroupedTech \cup DirectRows, MaxBlocks)}

NoResult == [exc |-> "none"]

InitZu ==
    /\ text \in ZuTexts
    /\ pc = "zu_call"
    /\ upload = [filename_pdf |-> TRUE, size |-> "small", container |-> "xfa", text |-> <<>>]
    /\ fmt = ""
    /\ result = NoResult
    /\ calls = <<>>
    /\ status = 0

\* extract_ma_zuordnungen_ds(text) is called and returns or raises
CallExtractZuordnungen ==
    /\ pc = "zu_call"
    /\ result' = extract_ma_zuordnungen_ds(text)
    /\ pc' = "zu_done"
    /\ calls' = Append(calls, "extract_ma_zuordnungen_ds")
    /\ UNCHANGED <<upload, text, fmt, status>>

NextZu == CallExtractZuordnungen

SpecZu == InitZu /\ [][NextZu]_vars

----------------------------------------------------------------------------
(* Claims about extract_ma_zuordnungen_ds, checked under SpecZu            *)

ZuReturned == pc = "zu_done" /\ result.exc = "none"

RECURSIVE TagBlocks(_, _)
TagBlocks(blocks, technical) ==
    IF blocks = <<>> THEN <<>>
    ELSE <<[ma |-> Head(blocks).g1, pm |-> Head(blocks).g2, aps |-> Head(blocks).g3, technical |-> technical]>>
         \o TagBlocks(Tail(blocks), technical)

\* the grouped-by-employee blocks of the text, both families
GroupedBlocks == TagBlocks(MaBlocks(text), FALSE) \o TagBlocks(MaBlocksTech(text), TRUE)

\* the non-blank identifiers a block lists
Listed(b) == DropBlank(Split(b.aps, ";"))

\* a block with a non-zero ordinal that lists at least one identifier
Qualifies(b) == IntFloatOK(b.ma) /\ IntFloatVal(b.ma) # 0 /\ Len(Listed(b)) >= 1

CodeAsListed(b, j) == AP \o Listed(b)[j]

CodeDotsRemoved(b, j) == AP \o (IF b.technical THEN RStripDot(Listed(b)[j]) ELSE Listed(b)[j])

Abs(x) == IF x >= 0 THEN x ELSE -x

\* p is T / k rounded to two decimals: a multiple of 1/100 nearest to T / k
IsShare(p, T, k) == p % (Scale \div 100) = 0 /\ 2 * Abs(k * p - T) <= k * (Scale \div 100)

EqualShare(Code(_, _)) ==
    ZuReturned =>
        LET B == GroupedBlocks
            Q == {i \in 1..Len(B) : Qualifies(B[i])}
            P == UNION {{<<i, j>> : j \in 1..Len(Listed(B[i]))} : i \in Q}
            zu == result.zu
        IN  Q # {} =>
            /\ DOMAIN zu = {Code(B[x[1]], x[2]) : x \in P}
            /\ \A c \in DOMAIN zu : \A i \in Q :
                  Cardinality({n \in 1..Len(zu[c]) : zu[c][n].ma_nr = IntFloatVal(B[i].ma)})
                  = Cardinality({x \in P : IntFloatVal(B[x[1]].ma) = IntFloatVal(B[i].ma) /\ Code(B[x[1]], x[2]) = c})
            /\ \A c \in DOMAIN zu : \A n \in 1..Len(zu[c]) : \E x \in P :
                  /\ Code(B[x[1]], x[2]) = c
                  /\ zu[c][n].ma_nr = IntFloatVal(B[x[1]].ma)
                  /\ IsShare(zu[c][n].pm, parse_float_value(B[x[1]].pm), Len(Listed(B[x[1]])))

C4_PositiveEntries ==
    ZuReturned => \A c \in DOMAIN result.zu : \A n \in 1..Len(result.zu[c]) :
        result.zu[c][n].pm > 0 /\ result.zu[c][n].ma_nr # 0

\* the map the grouped-by-employee encoding (both tag families) produces for the text
GroupedMap == GroupedEncoding(text).zu

\* a direct row of the text that names an employee: it would add an entry
DirectRowWithEmployee ==
    \E n \in 1..Len(ZeileMatches(text)) :
        /\ IntFloatOK(ZeileMatches(text)[n].g2)
        /\ IntFloatVal(ZeileMatches(text)[n].g2) # 0

\* C12: the direct rows contribute only when the grouped encoding produced no
\* assignment at all; when it produced at least one, the returned map is the
\* grouped encoding's map and holds no entry derived from a direct row.
C12_DirectRowsOnlyAsFallback ==
    ZuReturned =>
        /\ GroupedMap # EmptyDict => result.zu = GroupedMap
        /\ result.zu # GroupedMap => GroupedMap = EmptyDict /\ ZeileMatches(text) # <<>>

\* a text with a grouped block that produced assignments and a direct row naming an
\* employee has returned
C12_Witness ==
    /\ ZuReturned
    /\ GroupedMap # EmptyDict
    /\ DirectRowWithEmployee
    /\ result.zu # EmptyDict


----------------------------------------------------------------------------
(* Inputs of parse_durchfuehrbarkeitsstudie: texts of non-technical and     *)
(* technical work-package candidates, with or without a grouped block      *)

MaxAP == 3

Plan == <<"P", "l", "a", "n">>

Test == <<"T", "e", "s", "t">>

Tech == <<"T", "e", "c", "h">>

\* (identifier, name, person-months) of a non-technical candidate
NonTechValues ==
    { <<<<"1">>, Plan, <<"0", ".", "5">>>>,
      <<<<"1">>, Test, <<"1", ",", "5">>>>,
      <<<<"2">>, Plan, <<"1", ",", "5">>>>,
      <<<<"1", ".", "1">>, Plan, <<"0", ".", "5">>>>,
      <<<<"1", ".">>, Plan, <<"0", ".", "5">>>>,
      <<<<"0">>, Plan, <<"0", ".", "5">>>>,
      <<<<"x">>, Plan, <<"0", ".", "5">>>>,
      <<<<"-", "1">>, Plan, <<"0", ".", "5">>>>,
      <<<<>>, Plan, <<"0", ".", "5">>>>,
      <<<<"1">>, <<"a", "b">>, <<"0", ".", "5">>>>,
      <<<<"3">>, Plan, <<>>>> }

\* (identifier, name, person-months) of a technical candidate
TechValues ==
    { <<<<"1">>, Tech, <<"2">>>>,
      <<<<"1", ".">>, Tech, <<"2">>>>,
      <<<<"2", ".", "1", ".">>, Tech, <<"2">>>>,
      <<<<"0">>, Tech, <<"2">>>>,
      <<<<"x", ".">>, Tech, <<"2">>>>,
      <<<<"3">>, <<"a", "b">>, <<"2">>>>,
      <<<<>>, Tech, <<"2">>>>,
      <<<<"3">>, Tech, <<"a", "b", "c">>>> }

NonTechCandidates == {<<Field("Arbeitspaket_Nr", v[1]), Field("Arbeitspaket", v[2]), Field("pm", v[3])>> : v \in NonTechValues}

TechCandidates == {<<Field("Arbeitspaket_Nr_techn", v[1]), Field("Arbeitspaket_techn", v[2]), Field("pm_techn", v[3])>> : v \in TechValues}

\* the grouped block <MA_10B>1</MA_10B><pm_10B>1.5</pm_10B><AP_10B>1;3;</AP_10B>
OneGroupedBlock == <<Field("MA_10B", <<"1">>), Field("pm_10B", <<"1", ".", "5">>), Field("AP_10B", <<"1", ";", "3", ";">>)>>

ApTexts ==
    UNION {{Flatten(n) \o Flatten(t) : n \in [1..k -> NonTechCandidates], t \in SeqsUpTo(TechCandidates, MaxAP - k)} : k \in 0..MaxAP}

DsTexts == {g \o a : g \in {<<>>, OneGroupedBlock}, a \in ApTexts}

InitDS ==
    /\ text \in DsTexts
    /\ pc = "ds_call"
    /\ upload = [filename_pdf |-> TRUE, size |-> "small", container |-> "xfa", text |-> <<>>]
    /\ fmt = ""
    /\ result = NoResult
    /\ calls = <<>>
    /\ status = 0

\* parse_durchfuehrbarkeitsstudie(text, filename) is called and returns or raises
CallParseDS ==
    /\ pc = "ds_call"
    /\ result' = parse_durchfuehrbarkeitsstudie(text)
    /\ pc' = "ds_done"
    /\ calls' = Append(calls, "parse_durchfuehrbarkeitsstudie")
    /\ UNCHANGED <<upload, text, fmt, status>>

NextDS == CallParseDS

SpecDS == InitDS /\ [][NextDS]_vars

----------------------------------------------------------------------------
(* Claims about parse_durchfuehrbarkeitsstudie, checked under SpecDS       *)

DsReturned == pc = "ds_done" /\ result.exc = "none"

RECURSIVE SumPm(_)
SumPm(l) == IF l = <<>> THEN 0 ELSE Head(l).pm + SumPm(Tail(l))

RECURSIVE SumGesamtPm(_)
SumGesamtPm(l) == IF l = <<>> THEN 0 ELSE Head(l).gesamt_pm + SumGesamtPm(Tail(l))

\* the rows of the two candidate lists of the text, zipped by index (from 0)
NonTechRows == 0..(Max(Len(extract_all_values("Arbeitspaket_Nr", text)), Len(extract_all_values("Arbeitspaket", text))) - 1)

TechRows == 0..(Max(Len(extract_all_values("Arbeitspaket_Nr_techn", text)), Len(extract_all_values("Arbeitspaket_techn", text))) - 1)

\* the package w is row i of its list: its name, its code and the value of its
\* person-months field
IsRow(w, i) ==
    IF w.is_technical
    THEN /\ w.name = At(extract_all_values("Arbeitspaket_techn", text), i, <<>>)
         /\ w.ap_code = AP \o RStripDot(At(extract_all_values("Arbeitspaket_Nr_techn", text), i, <<>>))
         /\ w.gesamt_pm = parse_float_value(At(extract_all_values("pm_techn", text), i, <<"0">>))
    ELSE /\ w.name = At(extract_all_values("Arbeitspaket", text), i, <<>>)
         /\ w.ap_code = AP \o At(extract_all_values("Arbeitspaket_Nr", text), i, IntToStr(i + 1))
         /\ w.gesamt_pm = parse_float_value(At(extract_all_values("pm", text), i, <<"0">>))

\* C1: no two work packages of the returned list share (ap_nummer, ap_code).
C1_UniquePairs ==
    DsReturned => \A i, j \in 1..Len(result.arbeitspakete) :
        i # j => <<result.arbeitspakete[i].ap_nummer, result.arbeitspakete[i].ap_code>>
                 # <<result.arbeitspakete[j].ap_nummer, result.arbeitspakete[j].ap_code>>

\* the display codes the technical candidates of the text resolve to
TechCandidateCodes ==
    {AP \o RStripDot(At(extract_all_values("Arbeitspaket_Nr_techn", text), i, <<>>)) :
        i \in {r \in TechRows : At(extract_all_values("Arbeitspaket_Nr_techn", text), r, <<>>) # <<>>}}

\* C2: when an accepted non-technical package and a technical candidate resolve to
\* the same display code, the list holds exactly one entry with that code, the
\* non-technical one, and the dropped candidate's person-months are not in
\* projekt.gesamt_pm.
C2_OneEntryPerCollision ==
    DsReturned =>
        LET aps == result.arbeitspakete
        IN  \A c \in TechCandidateCodes :
                (\E k \in 1..Len(aps) : aps[k].ap_code = c /\ ~aps[k].is_technical) =>
                    /\ Cardinality({k \in 1..Len(aps) : aps[k].ap_code = c}) = 1
                    /\ \A k \in 1..Len(aps) : aps[k].ap_code = c => ~aps[k].is_technical
                    /\ result.projekt.gesamt_pm = SumGesamtPm(aps)

\* C9: projekt.gesamt_pm is the sum of gesamt_pm over exactly the packages of the
\* returned list, and each package's gesamt_pm is the value of its own
\* person-months field.
C9_GesamtPm ==
    DsReturned =>
        /\ result.projekt.gesamt_pm = SumGesamtPm(result.arbeitspakete)
        /\ \A k \in 1..Len(result.arbeitspakete) :
              \E i \in (IF result.arbeitspakete[k].is_technical THEN TechRows ELSE NonTechRows) :
                  IsRow(result.arbeitspakete[k], i)

\* a returned list that dropped a candidate and holds a package whose assignments
\* sum to something else than its gesamt_pm
C9_Witness ==
    /\ DsReturned
    /\ Len(result.arbeitspakete) < Cardinality(NonTechRows) + Cardinality(TechRows)
    /\ result.projekt.gesamt_pm > 0
    /\ \E k \in 1..Len(result.arbeitspakete) :
          /\ result.arbeitspakete[k].mitarbeiter_zuordnungen # <<>>
          /\ SumPm(result.arbeitspakete[k].mitarbeiter_zuordnungen) # result.arbeitspakete[k].gesamt_pm

\* the identifier of row i of the non-technical list, and whether the row is accepted
NonTechIdentifier(i) == At(extract_all_values("Arbeitspaket_Nr", text), i, IntToStr(i + 1))

NonTechAccepted(i) == NameAccepted(At(extract_all_values("Arbeitspaket", text), i, <<>>))

\* a non-technical candidate whose identifier parses to main = 0 is in the list
\* with its 1-based position for main number
ZeroMainGetsPosition ==
    \A i \in NonTechRows :
        NonTechAccepted(i) /\ parse_ap_nummer(NonTechIdentifier(i))[1] = 0 =>
            \E k \in 1..Len(result.arbeitspakete) :
                /\ IsRow(result.arbeitspakete[k], i)
                /\ result.arbeitspakete[k].ap_nummer = i + 1

\* no technical package of the list has an identifier that is unparsable or
\* parses to main = 0
TechZeroMainDiscarded ==
    \A k \in 1..Len(result.arbeitspakete) :
        result.arbeitspakete[k].is_technical =>
            \E i \in TechRows :
                /\ IsRow(result.arbeitspakete[k], i)
                /\ parse_ap_nummer(At(extract_all_values("Arbeitspaket_Nr_techn", text), i, <<>>))[1] > 0
                /\ result.arbeitspakete[k].ap_nummer = parse_ap_nummer(At(extract_all_values("Arbeitspaket_Nr_techn", text), i, <<>>))[1]

\* C14: a non-technical candidate whose identifier parses to main = 0 is accepted
\* with its 1-based position for main number, a technical candidate whose
\* identifier is unparsable or parses to main = 0 is discarded, and every work
\* package of the returned list has main number >= 1.
C14_MainNumbers ==
    DsReturned =>
        /\ ZeroMainGetsPosition
        /\ TechZeroMainDiscarded
        /\ \A k \in 1..Len(result.arbeitspakete) : result.arbeitspakete[k].ap_nummer >= 1


----------------------------------------------------------------------------
(* Uploads to /parse                                                       *)

MaxMA == 2

Muster == <<"M", "u", "s", "t", "e", "r">>

Vorname == <<"M", "a", "x">>

\* one per-person block: <Page11> lfd? name? vname? </Page11>
Page11Block(lfd, name, vname) == <<Open("Page11")>> \o lfd \o name \o vname \o <<Close("Page11")>>

Page11Variants ==
    {Page11Block(<<Field("lfd", v)>>, <<Field("name", Muster)>>, <<Field("vname", Vorname)>>) :
        v \in {<<"1">>, <<"2">>, <<>>, <<" ">>, <<"a", "b", "c">>}}
    \cup {Page11Block(<<>>, <<Field("name", Muster)>>, <<Field("vname", Vorname)>>),
          Page11Block(<<Field("lfd", <<"1">>)>>, <<Field("name", <<>>)>>, <<Field("vname", Vorname)>>),
          Page11Block(<<Field("lfd", <<"3">>)>>, <<Field("name", Muster)>>, <<>>)}

EmployeeBodies == {Flatten(bs) : bs \in SeqsUpTo(Page11Variants, MaxMA)}

SmallBodies ==
    {<<>>,
     <<Field("Arbeitspaket_Nr", <<"1">>), Field("Arbeitspaket", Plan), Field("pm", <<"0", ".", "5">>)>>,
     <<Field("Arbeitspaket_Nr_techn", <<"1", ".">>), Field("Arbeitspaket_techn", Tech), Field("pm_techn", <<"2">>)>>,
     <<Field("sum_ges_pm", <<"1", ",", "5">>)>>,
     OneGroupedBlock,
     <<Field("MA_10B", <<"a", "b", "c">>), Field("pm_10B", <<"1", ".", "5">>), Field("AP_10B", <<"1", ";", "3", ";">>)>>,
     <<Field("MA_10B_techn", <<" ">>), Field("pm_10B_techn", <<"1", ".", "5">>), Field("AP_10B_techn", <<"1", ";", "3", ";">>)>>,
     <<Field("Arbeitspaket_Nr", <<"1">>), Field("MA_Nr", <<"a", "b", "c">>), Field("pm", <<"0", ".", "5">>)>>}

\* the markers of the two formats, each present or not, the <thema> tag also in
\* a spelling only the case-insensitive patterns match
Heads ==
    {a \o t \o v \o c :
        a \in {<<>>, <<Open("Antrag_DS")>>},
        t \in {<<>>, <<Field("thema", Test)>>, <<Field("THEMA", Test)>>},
        v \in {<<>>, <<Field("cg_VMS_VB_Projekt", Plan)>>},
        c \in {<<>>, <<Field("cg_case_KENN_2", <<"1">>)>>}}

UploadTexts ==
    {h \o b : h \in Heads, b \in SmallBodies}
    \cup {h \o b : h \in {<<>>, <<Open("Antrag_DS")>>, <<Field("thema", Test)>>}, b \in EmployeeBodies}

Uploads ==
    {[filename_pdf |-> f, size |-> z, container |-> c, text |-> <<>>] :
        f \in BOOLEAN, z \in {"small", "oversized"}, c \in {"unreadable", "no_acroform", "no_xfa"}}
    \cup {[filename_pdf |-> f, size |-> z, container |-> "xfa", text |-> t] :
        f \in BOOLEAN, z \in {"small", "oversized"}, t \in UploadTexts}

Init ==
    /\ upload \in Uploads
    /\ text = <<>>
    /\ pc = "request"
    /\ fmt = ""
    /\ result = NoResult
    /\ calls = <<>>
    /\ status = 0

Next ==
    \/ ParsePdfRejectName
    \/ ParsePdfRead
    \/ ZimUnreadable
    \/ ZimNoFormData
    \/ ZimDecode
    \/ ZimDetectFormat
    \/ ZimParseDS
    \/ ZimParseStandard
    \/ ZimFallback
    \/ ZimKeepFirst
    \/ ZimReturn
    \/ ParsePdfOk
    \/ ParsePdfValueError
    \/ ParsePdfException

Spec == Init /\ [][Next]_vars

----------------------------------------------------------------------------
(* Claims about parse_zim_pdf and /parse, checked under Spec               *)

\* C5: no parser raises on a non-empty decoded text: an exception leaves
\* parse_zim_pdf only for an input-shape error (unreadable content, no AcroForm,
\* no XFA, empty decoded text).
C5_OnlyShapeErrors ==
    pc = "raised" => upload.container # "xfa" \/ upload.text = <<>>

\* the text holds a marker of the feasibility-study format / of the standard format
HasDsMarker ==
    \E i \in 1..Len(text) :
        \/ text[i].tag = "Antrag_DS"
        \/ text[i].tag = "thema" /\ text[i].kind # "close"

HasStandardMarker == \E i \in 1..Len(text) : text[i].tag \in {"cg_VMS_VB_Projekt", "cg_case_KENN_2"}

Detected == pc \in {"dispatch", "fallback", "assemble", "returned"}

\* C7: a text with a feasibility-study marker is classified as that format whatever
\* else it holds; otherwise one with a standard marker as standard; otherwise unknown.
C7_Precedence ==
    Detected =>
        /\ HasDsMarker => fmt = "durchfuehrbarkeitsstudie"
        /\ ~HasDsMarker /\ HasStandardMarker => fmt = "standard_zim"
        /\ ~HasDsMarker /\ ~HasStandardMarker => fmt = "unbekannt"

\* a text with markers of both formats has been classified as feasibility study
C7_Witness == Detected /\ HasDsMarker /\ HasStandardMarker /\ fmt = "durchfuehrbarkeitsstudie"

ZIM == "parse_zim_pdf"

RUN_DS == "parse_durchfuehrbarkeitsstudie"

RUN_STD == "parse_standard_zim"

\* the feasibility-study result has neither a project name nor a work package
FirstIsEmpty ==
    /\ parse_durchfuehrbarkeitsstudie(text).projekt.name = <<>>
    /\ parse_durchfuehrbarkeitsstudie(text).arbeitspakete = <<>>

\* C6: for an unknown format the feasibility-study parser runs first and the standard
\* parser runs after it exactly when the first result has no project name and no
\* work package, its result then replacing the first; for a detected format exactly
\* that format's parser runs.
C6_Dispatch ==
    /\ pc \in {"assemble", "returned"} =>
          CASE fmt = "durchfuehrbarkeitsstudie" -> calls = <<ZIM, RUN_DS>>
            [] fmt = "standard_zim" -> calls = <<ZIM, RUN_STD>>
            [] fmt = "unbekannt" -> calls = IF FirstIsEmpty THEN <<ZIM, RUN_DS, RUN_STD>> ELSE <<ZIM, RUN_DS>>
    /\ pc = "assemble" =>
          CASE fmt = "durchfuehrbarkeitsstudie" -> result = parse_durchfuehrbarkeitsstudie(text)
            [] fmt = "standard_zim" -> result = parse_standard_zim(text)
            [] fmt = "unbekannt" -> result = IF FirstIsEmpty THEN parse_standard_zim(text) ELSE parse_durchfuehrbarkeitsstudie(text)
    /\ pc = "fallback" => fmt = "unbekannt" /\ calls = <<ZIM, RUN_DS>>
    /\ pc = "raised" /\ fmt # "" => calls = <<ZIM, RUN_DS>>

\* an unknown format whose first result was empty: the standard parser ran second
\* and its result, with the project name it found, is the result
C6_Witness ==
    /\ pc = "assemble"
    /\ fmt = "unbekannt"
    /\ calls = <<ZIM, RUN_DS, RUN_STD>>
    /\ result.format = "standard_zim"
    /\ text # <<>>

\* C8: the employees of the returned record are in non-decreasing order of ma_nr.
C8_EmployeesOrdered ==
    pc = "returned" => \A i \in 1..(Len(result.mitarbeiter) - 1) :
        result.mitarbeiter[i].ma_nr <= result.mitarbeiter[i + 1].ma_nr

\* C10: for an upload that is not a document or is oversized, parse_zim_pdf is
\* never called and the response is a client error.
C10_RejectedBeforeCore ==
    (~upload.filename_pdf \/ upload.size = "oversized") =>
        /\ calls = <<>>
        /\ pc = "responded" => status = 400

----------------------------------------------------------------------------
(* parse_float_value on its own: SpecPF                                    *)

MaxLen == 4

FloatAlphabet == {"1", "5", ",", ".", " ", "a", "-"}

\* the numerals of the documentation, longer than MaxLen
FloatExamples ==
    { <<"1", ".", "2", "3", "4", ",", "5", "6">>,
      <<"1", ",", "2", "3", "4", ".", "5", "6">>,
      <<"5", "0", ",", "5">>,
      <<"a", "b", "c">>,
      <<"1", ",", "2", "3", "4", ".", "5", ",", "6">> }

FloatInputs == SeqsUpTo(FloatAlphabet, MaxLen) \cup FloatExamples

InitPF ==
    /\ text \in FloatInputs
    /\ pc = "pf_call"
    /\ upload = [filename_pdf |-> TRUE, size |-> "small", container |-> "xfa", text |-> <<>>]
    /\ fmt = ""
    /\ result = NoResult
    /\ calls = <<>>
    /\ status = 0

\* parse_float_value(text) is called and returns: the bare except of the source
\* catches whatever float() raises, and str.strip / str.replace raise nothing
CallParseFloat ==
    /\ pc = "pf_call"
    /\ result' = [exc |-> "none", val |-> parse_float_value(text)]
    /\ pc' = "pf_done"
    /\ calls' = Append(calls, "parse_float_value")
    /\ UNCHANGED <<upload, text, fmt, status>>

NextPF == CallParseFloat

SpecPF == InitPF /\ [][NextPF]_vars

----------------------------------------------------------------------------
(* Claim about parse_float_value, checked under SpecPF                     *)

PfReturned == pc = "pf_done"

HasBoth(s) == Contains(s, ",") /\ Contains(s, ".")

\* the decimal separator of s as the claim names it
DecimalSeparator(s) ==
    IF HasBoth(s) THEN (IF RFind(s, ",") > RFind(s, ".") THEN "," ELSE ".")
    ELSE IF Contains(s, ",") THEN "," ELSE "."

OtherSeparator(s) == IF DecimalSeparator(s) = "," THEN "." ELSE ","

\* s with every occurrence of the other separator stripped and the decimal
\* separator written as a point
Normalised(s) == Replace(Replace(s, OtherSeparator(s), <<>>), DecimalSeparator(s), <<".">>)

\* C11: parse_float_value never raises; the separator whose last occurrence is
\* later is the decimal separator and the other one is stripped, a lone ',' is the
\* decimal separator, and empty or unparsable input gives 0; "1.234,56" and
\* "1,234.56" give 1234.56, "50,5" gives 50.5, "" and "abc" give 0.
C11_Separators ==
    PfReturned =>
        /\ result.exc = "none"
        /\ result.val = (IF FloatOK(Normalised(Strip(text))) THEN FloatVal(Normalised(Strip(text))) ELSE 0)
        /\ text = <<"1", ".", "2", "3", "4", ",", "5", "6">> => result.val = 1234 * Scale + 56 * (Scale \div 100)
        /\ text = <<"1", ",", "2", "3", "4", ".", "5", "6">> => result.val = 1234 * Scale + 56 * (Scale \div 100)
        /\ text = <<"5", "0", ",", "5">> => result.val = 50 * Scale + 5 * (Scale \div 10)
        /\ text \in {<<>>, <<"a", "b", "c">>} => result.val = 0

\* a numeral with both separators, the point last, that parsed to a non-zero value
C11_Witness ==
    /\ PfReturned
    /\ HasBoth(text)
    /\ RFind(text, ".") > RFind(text, ",")
    /\ result.val # 0

----------------------------------------------------------------------------
(* extract_mitarbeiter_ds on its own: SpecMA                               *)

InitMA ==
    /\ text \in EmployeeBodies
    /\ pc = "ma_call"
    /\ upload = [filename_pdf |-> TRUE, size |-> "small", container |-> "xfa", text |-> <<>>]
    /\ fmt = ""
    /\ result = NoResult
    /\ calls = <<>>
    /\ status = 0

\* extract_mitarbeiter_ds(text) is called and returns or raises
CallExtractMitarbeiter ==
    /\ pc = "ma_call"
    /\ result' = extract_mitarbeiter_ds(text)
    /\ pc' = "ma_done"
    /\ calls' = Append(calls, "extract_mitarbeiter_ds")
    /\ UNCHANGED <<upload, text, fmt, status>>

NextMA == CallExtractMitarbeiter

SpecMA == InitMA /\ [][NextMA]_vars

----------------------------------------------------------------------------
(* Claim about extract_mitarbeiter_ds, checked under SpecMA                *)

MaReturned == pc = "ma_done" /\ result.exc = "none"

\* the values of the ordinal, surname and given-name fields of a block, '' when
\* the field is missing or empty
OrdinalOf(block) == extract_value("lfd", block)

\* a block with a non-empty ordinal field, a surname and a given name
BlockComplete(block) ==
    /\ OrdinalOf(block) # <<>>
    /\ extract_value("name", block) # <<>>
    /\ extract_value("vname", block) # <<>>

CompleteBlocks == SelectSeq(Page11Blocks(text, 1), BlockComplete)

\* C13: a per-person block yields no employee unless its ordinal field is
\* non-empty and its surname and given name are present; every other block yields
\* exactly one employee, in block order.
C13_SkipsIncompleteBlocks ==
    MaReturned =>
        /\ Len(result.list) = Len(CompleteBlocks)
        /\ \A n \in 1..Len(CompleteBlocks) :
              /\ n <= Len(result.list)
              /\ result.list[n].nachname = extract_value("name", CompleteBlocks[n])
              /\ result.list[n].vorname = extract_value("vname", CompleteBlocks[n])
              /\ result.list[n].ma_nr = IntFloatVal(OrdinalOf(CompleteBlocks[n]))

====
